---- MODULE Spec2Model ----
(***************************************************************************)
(* A model of the costbook pipeline of this repository:                    *)
(*   parse/extract_unit_costs_1.py       the Extractor (spreadsheet->JSON) *)
(*   embeddings/embed_and_upload_bni_costs.py   the Ingestor (embed+upsert)*)
(*   src/retriever.py, src/main.py       the Retrieval Service (/search)   *)
(*                                                                         *)
(* Strings of the program are TLA+ strings.  A spreadsheet header, whose   *)
(* characters the Extractor rewrites, is a sequence of tokens (words and   *)
(* the separators " ", "-", "_"); a column name such as main_division is   *)
(* the token sequence <<"main", "_", "division">>.                         *)
(***************************************************************************)
EXTENDS Integers, Sequences, FiniteSets, TLC

VARIABLES
    \* ---- the Extractor's world
    costbookExists,   \* COSTBOOK_PATH.exists()
    sheet,            \* the raw rows of sheet "UNIT COSTS1" (row 1 is the notice row)
    file,             \* unit_costs1_structured.json: NoFile or JsonFile(records)
    extractStatus,    \* how the last Extractor run ended
    missing,          \* the columns named by the last KeyError
    wroteFile,        \* whether the last Extractor run opened OUTPUT_FILE for writing
    fileBefore,       \* content of the file when the last Extractor run started
    \* ---- the Ingestor's world
    pc,               \* position of the Ingestor script
    collectionExists, \* whether collection "costbook_data" exists
    collection,       \* the points of the collection: id -> [vector, payload]
    data,             \* json.load(f)
    idx,              \* number of items of data the for loop has consumed
    points_batch,     \* the buffered points
    uploaded_total,
    failure,          \* which call raised in the current Ingestor run
    embedCalls,       \* embed() calls issued by the current Ingestor run
    upsertLog,        \* sizes of the upsert calls issued by the current run
    base,             \* number of points the collection held when the run started
    runs,             \* Ingestor runs started so far
    \* ---- the Retrieval Service's process
    _qdrant_client,   \* the module global: NoClient (None) or a client instance
    constructed,      \* QdrantClient instances constructed so far
    requests          \* the requests: their position and what they hold

vars == <<costbookExists, sheet, file, extractStatus, missing, wroteFile, fileBefore,
          pc, collectionExists, collection, data, idx, points_batch,
          uploaded_total, failure, embedCalls, upsertLog, base, runs,
          _qdrant_client, constructed, requests>>

serveVars == <<_qdrant_client, constructed, requests>>

extractVars == <<costbookExists, sheet, file, extractStatus, missing, wroteFile,
                 fileBefore>>
ingestVars == <<pc, collectionExists, collection, data, idx, points_batch,
                uploaded_total, failure, embedCalls, upsertLog, base, runs>>
\* What the Retrieval Service never touches (it reads the collection).
serveOthers == <<extractVars, pc, collectionExists, data, idx, points_batch,
                 uploaded_total, failure, embedCalls, upsertLog, base, runs>>

(***************************************************************************)
(* Values                                                                  *)
(***************************************************************************)
\* A spreadsheet cell that holds nothing.
EmptyCell == "<empty>"
\* pandas' missing value (float nan), which json.dump writes as NaN.
NaN == "<NaN>"
\* Python's None, what dict.get returns for an absent key.
None == "<None>"
\* A JSON file on disk: no file at the path, or one holding an array of records.
NoFile == [exists |-> FALSE, records |-> <<>>]
JsonFile(records) == [exists |-> TRUE, records |-> records]

Range(s) == {s[i] : i \in DOMAIN s}

\* The first index of x in sequence s (0 when absent).
IndexOf(s, x) ==
    IF x \in Range(s) THEN CHOOSE i \in DOMAIN s : s[i] = x /\ \A j \in 1..(i - 1) : s[j] # x
    ELSE 0

(***************************************************************************)
(* Header normalisation: str.strip, str.lower, str.replace                 *)
(***************************************************************************)
\* str.lower on one token.
LowerToken(t) ==
    CASE t \in {"MAIN", "Main"} -> "main"
      [] t \in {"DIVISION", "Division"} -> "division"
      [] t \in {"SUBDIVISION", "Subdivision"} -> "subdivision"
      [] t \in {"MAJOR", "Major"} -> "major"
      [] t \in {"CLASSIFICATION", "Classification"} -> "classification"
      [] t \in {"DESCRIPTION", "Description"} -> "description"
      [] t \in {"UNIT", "Unit"} -> "unit"
      [] t \in {"COST", "Cost"} -> "cost"
      [] t \in {"COSTS", "Costs"} -> "costs"
      [] t \in {"TOTAL", "Total"} -> "total"
      [] t \in {"BN2M", "Bn2m"} -> "bn2m"
      [] t \in {"NO2", "No2"} -> "no2"
      [] t \in {"NO", "No"} -> "no"
      [] t \in {"CODE", "Code"} -> "code"
      [] OTHER -> t

RECURSIVE LStrip(_)
LStrip(h) == IF h # <<>> /\ Head(h) = " " THEN LStrip(Tail(h)) ELSE h

RECURSIVE RStrip(_)
RStrip(h) == IF h # <<>> /\ h[Len(h)] = " " THEN RStrip(SubSeq(h, 1, Len(h) - 1)) ELSE h

StrStrip(h) == RStrip(LStrip(h))

StrLower(h) == [i \in DOMAIN h |-> LowerToken(h[i])]

StrReplace(h, old, new) == [i \in DOMAIN h |-> IF h[i] = old THEN new ELSE h[i]]

NormaliseHeader(h) ==
    StrReplace(StrReplace(StrLower(StrStrip(h)), " ", "_"), "-", "_")

(***************************************************************************)
(* Column names                                                            *)
(***************************************************************************)
main_division == <<"main", "_", "division">>
subdivision == <<"subdivision">>
major_classification == <<"major", "_", "classification">>
description == <<"description">>
unit == <<"unit">>
unit_cost == <<"unit", "_", "cost">>
total_cost == <<"total", "_", "cost">>
bn2m_no2 == <<"bn2m", "_", "no2">>
bn2m_no == <<"bn2m", "_", "no">>
code == <<"code">>

required_cols ==
    <<main_division, subdivision, major_classification, description, unit, unit_cost>>

(***************************************************************************)
(* The data frame: [columns |-> sequence of names, rows |-> sequence of    *)
(* rows, each a sequence of cells aligned with columns]                    *)
(***************************************************************************)
ReadCell(c) == IF c = EmptyCell THEN NaN ELSE c

\* pd.read_excel(..., skiprows=n): the first row left is the header row.
ReadExcel(raw, skiprows) ==
    IF Len(raw) <= skiprows THEN [columns |-> <<>>, rows |-> <<>>]
    ELSE [columns |-> raw[skiprows + 1],
          rows |-> [i \in 1..(Len(raw) - skiprows - 1) |->
                       [j \in DOMAIN raw[skiprows + 1 + i] |->
                           ReadCell(raw[skiprows + 1 + i][j])]]]

NormaliseColumns(df) ==
    [df EXCEPT !.columns = [i \in DOMAIN df.columns |-> NormaliseHeader(df.columns[i])]]

Rename(df, old, new) ==
    [df EXCEPT !.columns = [i \in DOMAIN df.columns |->
                               IF df.columns[i] = old THEN new ELSE df.columns[i]]]

RenameCost(df) ==
    IF total_cost \in Range(df.columns) /\ unit_cost \notin Range(df.columns)
    THEN Rename(df, total_cost, unit_cost)
    ELSE df

RenameCode(df) ==
    IF bn2m_no2 \in Range(df.columns) THEN Rename(df, bn2m_no2, code)
    ELSE IF bn2m_no \in Range(df.columns) THEN Rename(df, bn2m_no, code)
    ELSE df

\* The frame after the header normalisation and the two renames.
Prepared(raw) == RenameCode(RenameCost(NormaliseColumns(ReadExcel(raw, 1))))

MissingColumns(df) == SelectSeq(required_cols, LAMBDA c : c \notin Range(df.columns))

ExportCols(df) ==
    IF code \in Range(df.columns) THEN <<code>> \o required_cols ELSE required_cols

\* df[cols]
SelectColumns(df, cols) ==
    LET at == [j \in DOMAIN cols |-> IndexOf(df.columns, cols[j])]
    IN [columns |-> cols,
        rows |-> [i \in DOMAIN df.rows |-> [j \in DOMAIN cols |-> df.rows[i][at[j]]]]]

\* A slip: only unit_cost is looked at.
DropNaCostOnly(df, subset) ==
    LET at == IndexOf(df.columns, unit_cost)
    IN [df EXCEPT !.rows = SelectSeq(df.rows, LAMBDA r : r[at] # NaN)]

\* df.dropna(subset=subset)
DropNa(df, subset) ==
    LET at == {IndexOf(df.columns, c) : c \in subset}
    IN [df EXCEPT !.rows = SelectSeq(df.rows, LAMBDA r : \A j \in at : r[j] # NaN)]

\* A slip: the result of fillna is thrown away.
FillNaDiscarded(df, col, value) == df

\* df[col] = df[col].fillna(value)
FillNa(df, col, value) ==
    LET at == IndexOf(df.columns, col)
    IN IF at = 0 THEN df
       ELSE [df EXCEPT !.rows =
                [i \in DOMAIN df.rows |->
                    IF df.rows[i][at] = NaN THEN [df.rows[i] EXCEPT ![at] = value]
                    ELSE df.rows[i]]]

\* The column name as one string: its tokens joined.
ColumnKey(c) ==
    CASE c = code -> "code"
      [] c = main_division -> "main_division"
      [] c = subdivision -> "subdivision"
      [] c = major_classification -> "major_classification"
      [] c = description -> "description"
      [] c = unit -> "unit"
      [] c = unit_cost -> "unit_cost"
      [] c = total_cost -> "total_cost"
      [] c = bn2m_no2 -> "bn2m_no2"
      [] c = bn2m_no -> "bn2m_no"
      [] OTHER -> "<other>"

\* df.to_dict(orient="records"), each record then tagged with its source.
ToRecords(df) ==
    LET keys == {ColumnKey(df.columns[j]) : j \in DOMAIN df.columns}
        at == [k \in keys |-> CHOOSE j \in DOMAIN df.columns : ColumnKey(df.columns[j]) = k]
    IN [i \in DOMAIN df.rows |->
           [k \in keys \cup {"source_type"} |->
               IF k = "source_type" THEN "bni_csi" ELSE df.rows[i][at[k]]]]

CleanRows(df) == FillNa(DropNa(df, {description, unit_cost}), major_classification, "")


\* A slip: the output file is opened for writing before the columns are checked.
mainOpensFirst(exists, raw, old) ==
    IF ~exists
    THEN [status |-> "exit", missing |-> <<>>, wrote |-> FALSE, file |-> old]
    ELSE LET df == Prepared(raw) IN
         IF MissingColumns(df) # <<>>
         THEN [status |-> "KeyError", missing |-> MissingColumns(df),
               wrote |-> TRUE, file |-> JsonFile(<<>>)]
         ELSE [status |-> "ok", missing |-> <<>>, wrote |-> TRUE,
               file |-> JsonFile(ToRecords(CleanRows(SelectColumns(df, ExportCols(df)))))]

\* main(): how a run ends and what it leaves at OUTPUT_FILE, given whether the
\* costbook exists, the raw sheet and the file's content before the run.
main(exists, raw, old) ==
    IF ~exists
    THEN [status |-> "exit", missing |-> <<>>, wrote |-> FALSE, file |-> old]
    ELSE LET df == Prepared(raw) IN
         IF MissingColumns(df) # <<>>
         THEN [status |-> "KeyError", missing |-> MissingColumns(df),
               wrote |-> FALSE, file |-> old]
         ELSE [status |-> "ok", missing |-> <<>>, wrote |-> TRUE,
               file |-> JsonFile(ToRecords(CleanRows(SelectColumns(df, ExportCols(df)))))]

(***************************************************************************)
(* Spreadsheets the model feeds to the Extractor                           *)
(***************************************************************************)
\* Rows beside the notice row and the header row, in the Extractor's checks.
MaxRows == 2
\* Rows of the largest sheet the pipeline ingests.
MaxRecords == 1200

\* The headers a sheet may carry, in sheet order, and the field of a logical
\* row each column shows.
Slots ==
    << [id |-> 1, hdr |-> <<"BN2M", "_", "NO2">>, field |-> "code"],
       [id |-> 2, hdr |-> <<"bn2m", "_", "no">>, field |-> "code"],
       [id |-> 3, hdr |-> <<"MAIN", " ", "DIVISION">>, field |-> "main"],
       [id |-> 4, hdr |-> <<"Subdivision">>, field |-> "sub"],
       [id |-> 5, hdr |-> <<" ", "MAJOR", "-", "CLASSIFICATION", " ">>, field |-> "major"],
       [id |-> 6, hdr |-> <<"DESCRIPTION", " ">>, field |-> "desc"],
       [id |-> 7, hdr |-> <<"unit">>, field |-> "unit"],
       [id |-> 8, hdr |-> <<"TOTAL", " ", "COST">>, field |-> "total"],
       [id |-> 9, hdr |-> <<"unit", "_", "cost">>, field |-> "cost"],
       [id |-> 10, hdr |-> <<"UNIT", " ", "COSTS">>, field |-> "total"] >>

Layout(ids) == SelectSeq(Slots, LAMBDA s : s.id \in ids)

NoticeRow == << <<"NOTICE">> >>

BuildSheet(layout, rows) ==
    <<NoticeRow, [j \in DOMAIN layout |-> layout[j].hdr]>>
    \o [i \in DOMAIN rows |-> [j \in DOMAIN layout |-> rows[i][layout[j].field]]]

LogicalRow(c, d, m, hasCost) ==
    [code |-> c, main |-> "CONCRETE", sub |-> "FORMWORK", major |-> m, desc |-> d,
     unit |-> "SF", cost |-> IF hasCost THEN "4.25" ELSE EmptyCell,
     total |-> IF hasCost THEN "8.50" ELSE EmptyCell]

RowKinds ==
    { LogicalRow("03100", "Wall forms", EmptyCell, TRUE),
      LogicalRow("03110", "Slab forms", "SLABS", TRUE),
      LogicalRow("03120", EmptyCell, "WALLS", TRUE),
      LogicalRow("03130", "Wall forms", EmptyCell, FALSE),
      LogicalRow("03140", EmptyCell, EmptyCell, FALSE),
      [LogicalRow("03150", "Footing forms", EmptyCell, TRUE)
          EXCEPT !.unit = EmptyCell, !.main = EmptyCell, !.code = EmptyCell] }

RowSeqs(n) == UNION {[1..k -> RowKinds] : k \in 0..n}

\* Layouts that carry every required column.
FullLayouts ==
    {Layout(ids) : ids \in {{3, 4, 5, 6, 7, 8}, {1, 3, 4, 5, 6, 7, 9},
                            {2, 3, 4, 5, 6, 7, 8, 9}, {1, 2, 3, 4, 5, 6, 7, 8, 10}}}

ExtractSheets ==
    {BuildSheet(Layout(ids), <<LogicalRow("03100", "Wall forms", EmptyCell, TRUE)>>) :
        ids \in SUBSET (1..10)}
    \cup {BuildSheet(l, rows) : l \in FullLayouts, rows \in RowSeqs(MaxRows)}
    \cup {<<>>, <<NoticeRow>>}

\* The output of an earlier extraction, still at OUTPUT_FILE.
OldFile ==
    main(TRUE, BuildSheet(Layout({3, 4, 5, 6, 7, 9}),
                          <<LogicalRow("09900", "Paint", "FINISHES", TRUE)>>), NoFile).file

(***************************************************************************)
(* The Extractor                                                           *)
(***************************************************************************)
\* python parse/extract_unit_costs_1.py
RunExtractor ==
    LET r == main(costbookExists, sheet, file) IN
    /\ extractStatus' = r.status
    /\ missing' = r.missing
    /\ wroteFile' = r.wrote
    /\ fileBefore' = file
    /\ file' = r.file
    /\ UNCHANGED <<costbookExists, sheet>>

(***************************************************************************)
(* The Ingestor                                                            *)
(***************************************************************************)
BATCH_SIZE == 500
\* Ingestor runs in one behaviour.
MaxRuns == 2
\* Points the collection is let to grow to: a run starts only if it fits.
MaxPoints == 1200

\* dict.get(key)
Get(item, key) == IF key \in DOMAIN item THEN item[key] ELSE None

\* The text the Ingestor embeds for an item: its parts, in order.
InputText(item) ==
    <<"bni_csi", Get(item, "code"), Get(item, "main_division"), Get(item, "subdivision"),
      Get(item, "major_classification"), item.description>>

\* The embedding service: a fixed function from a text (its parts) to a vector,
\* here a point of a small space.
VECTOR_SIZE == 1536
PartCode(part) ==
    CASE part = "Wall forms" -> 101
      [] part = "Slab forms" -> 211
      [] part = "Footing forms" -> 307
      [] part = "Paint" -> 401
      [] part = "CONCRETE" -> 13
      [] part = "FORMWORK" -> 17
      [] part = "SLABS" -> 19
      [] part = "WALLS" -> 23
      [] part = "concrete formwork" -> 131
      [] part = "paint" -> 397
      [] part = "" -> 0
      [] OTHER -> 7
RECURSIVE TextCode(_)
TextCode(text) ==
    IF text = <<>> THEN 0 ELSE PartCode(Head(text)) + 3 * TextCode(Tail(text))
Embedding(text) == TextCode(text) % VECTOR_SIZE

\* embed(text)
embed(text) == Embedding(text)

Payload(item) ==
    [code |-> Get(item, "code"),
     unit |-> Get(item, "unit"),
     unit_cost |-> Get(item, "unit_cost"),
     main_division |-> Get(item, "main_division"),
     subdivision |-> Get(item, "subdivision"),
     major_classification |-> Get(item, "major_classification"),
     description |-> item.description,
     source_type |-> "bni_csi",
     version |-> "2025",
     embedding_model |-> "text-embedding-3-small"]

\* str(uuid.uuid4()): an id no point carries yet.  Ids are interchangeable, so the
\* model takes the least one carried neither by the collection nor by the
\* `buffered` points of the batch.
NewId(buffered) == Len(collection) + buffered + 1

PointStruct(id, vector, payload) == [id |-> id, vector |-> vector, payload |-> payload]

\* qdrant_client.upsert: insert or update, keyed by point id.
Upsert(coll, points) ==
    LET ids == {points[j].id : j \in DOMAIN points}
        Last(i) == CHOOSE j \in DOMAIN points :
                      points[j].id = i /\ \A k \in DOMAIN points : points[k].id = i => k <= j
    IN [i \in DOMAIN coll \cup ids |->
           IF i \in ids THEN [vector |-> points[Last(i)].vector,
                              payload |-> points[Last(i)].payload]
           ELSE coll[i]]

\* A slip: the batch is flushed one point late.
BatchFullStrict(buffered) == buffered > BATCH_SIZE

\* if len(points_batch) >= BATCH_SIZE, with `buffered` points in the batch
BatchFull(buffered) == buffered >= BATCH_SIZE

\* if points_batch: (after the loop)
HasRemainder(batch) == batch # <<>>

\* Lines 28-41: the client, the collection (created when absent), then the file.
IngestStart ==
    /\ pc \in {"idle", "done", "aborted"}
    /\ runs < MaxRuns
    /\ Len(collection) + Len(file.records) <= MaxPoints
    /\ runs' = runs + 1
    /\ collectionExists' = TRUE
    /\ base' = Len(collection)
    /\ idx' = 0
    /\ points_batch' = <<>>
    /\ uploaded_total' = 0
    /\ embedCalls' = 0
    /\ upsertLog' = <<>>
    /\ data' = file.records
    /\ pc' = IF file.exists THEN "loop" ELSE "aborted"
    /\ failure' = IF file.exists THEN "none" ELSE "open"
    /\ UNCHANGED <<collection, extractVars, serveVars>>

\* item["description"] raises KeyError in pass m of the loop, counted from idx.
NoDescription(m) == "description" \notin DOMAIN data[idx + m]

\* The passes among the next k in which item["description"] raises KeyError.
Undescribed(k) == {m \in 1..k : NoDescription(m)}

\* points_batch after j more passes of the loop whose embed returns: each pass
\* embeds its item and appends its point.
Buffer(j) ==
    points_batch \o
        [m \in 1..j |->
            LET item == data[idx + m]
            IN PointStruct(NewId(Len(points_batch) + m - 1), embed(InputText(item)),
                           Payload(item))]

\* The passes the loop makes from here before it stops to upsert or runs out of
\* data: the first pass that leaves the batch full, or else the last one.
Passes ==
    LET left == Len(data) - idx
    IN CHOOSE j \in 1..left :
          /\ BatchFull(Len(points_batch) + j) \/ j = left
          /\ \A m \in 1..(j - 1) : ~BatchFull(Len(points_batch) + m)

\* The passes of the for loop up to the next upsert or to the end of the data:
\* every embed returns.
IngestItem ==
    /\ pc = "loop"
    /\ idx < Len(data)
    /\ Undescribed(Passes) = {}
    /\ idx' = idx + Passes
    /\ points_batch' = Buffer(Passes)
    /\ embedCalls' = embedCalls + Passes
    /\ pc' = IF BatchFull(Len(points_batch) + Passes) THEN "flush" ELSE "loop"
    /\ UNCHANGED <<collection, collectionExists, data, uploaded_total, failure,
                   upsertLog, base, runs, extractVars, serveVars>>

\* A slip: the points buffered when embed raises are upserted on the way out.
IngestItemFailsAndFlushes ==
    /\ pc = "loop"
    /\ idx < Len(data)
    /\ \E k \in 1..Passes :
          /\ Undescribed(k - 1) = {}
          /\ idx' = idx + k - 1
          /\ points_batch' = Buffer(k - 1)
          /\ collection' = Upsert(collection, Buffer(k - 1))
          /\ embedCalls' = embedCalls + k
          /\ failure' = "embed"
    /\ pc' = "aborted"
    /\ UNCHANGED <<collectionExists, data, uploaded_total,
                   upsertLog, base, runs, extractVars, serveVars>>

\* The passes of the for loop up to one whose embed raises (or whose item has no
\* description): the points of the passes before it are buffered, and the
\* exception ends the script.
IngestItemFails ==
    /\ pc = "loop"
    /\ idx < Len(data)
    /\ \E k \in 1..Passes :
          /\ Undescribed(k - 1) = {}
          /\ idx' = idx + k - 1
          /\ points_batch' = Buffer(k - 1)
          /\ embedCalls' = IF NoDescription(k) THEN embedCalls + k - 1
                            ELSE embedCalls + k
          /\ failure' = IF NoDescription(k) THEN "KeyError" ELSE "embed"
    /\ pc' = "aborted"
    /\ UNCHANGED <<collection, collectionExists, data, uploaded_total,
                   upsertLog, base, runs, extractVars, serveVars>>

\* The upsert of a full batch, inside the loop.
Flush ==
    /\ pc = "flush"
    /\ collection' = Upsert(collection, points_batch)
    /\ upsertLog' = Append(upsertLog, Len(points_batch))
    /\ uploaded_total' = uploaded_total + Len(points_batch)
    /\ points_batch' = <<>>
    /\ pc' = "loop"
    /\ UNCHANGED <<collectionExists, data, idx, failure, embedCalls, base, runs,
                   extractVars, serveVars>>

\* An upsert call raises.  The service may or may not have applied the call it
\* failed to acknowledge.
UpsertFails(at) ==
    /\ pc = at
    /\ at = "loop" => idx = Len(data) /\ HasRemainder(points_batch)
    /\ \E applied \in BOOLEAN :
          collection' = IF applied THEN Upsert(collection, points_batch) ELSE collection
    /\ upsertLog' = Append(upsertLog, Len(points_batch))
    /\ failure' = "upsert"
    /\ pc' = "aborted"
    /\ UNCHANGED <<collectionExists, data, idx, points_batch, uploaded_total,
                   embedCalls, base, runs, extractVars, serveVars>>

\* After the loop: the remaining points are upserted, and the script ends.
FinalFlush ==
    /\ pc = "loop"
    /\ idx = Len(data)
    /\ HasRemainder(points_batch)
    /\ collection' = Upsert(collection, points_batch)
    /\ upsertLog' = Append(upsertLog, Len(points_batch))
    /\ uploaded_total' = uploaded_total + Len(points_batch)
    /\ pc' = "done"
    /\ UNCHANGED <<collectionExists, data, idx, points_batch, failure, embedCalls,
                   base, runs, extractVars, serveVars>>

\* After the loop: nothing remains, and the script ends.
Finish ==
    /\ pc = "loop"
    /\ idx = Len(data)
    /\ ~HasRemainder(points_batch)
    /\ pc' = "done"
    /\ UNCHANGED <<collection, collectionExists, data, idx, points_batch,
                   uploaded_total, failure, embedCalls, upsertLog, base, runs,
                   extractVars, serveVars>>

(***************************************************************************)
(* The pipeline: the Extractor and the Ingestor over one costbook          *)
(***************************************************************************)
\* Sheet row i of a large sheet: every row is complete.
BigRow(i) ==
    IF i % 3 = 0 THEN LogicalRow("03100", "Wall forms", EmptyCell, TRUE)
    ELSE IF i % 3 = 1 THEN LogicalRow("03110", "Slab forms", "SLABS", TRUE)
    ELSE [LogicalRow("03150", "Footing forms", EmptyCell, TRUE) EXCEPT !.unit = EmptyCell]

BigSheet(n) == BuildSheet(Layout({1, 3, 4, 5, 6, 7, 8}), [i \in 1..n |-> BigRow(i)])

PipelineSheets ==
    {BigSheet(MaxRecords), BigSheet(BATCH_SIZE)}
    \cup {BuildSheet(Layout({3, 4, 5, 6, 7, 9}), rows) : rows \in RowSeqs(1)}
    \cup {BuildSheet(Layout({2, 3, 4, 5, 6, 7, 8}),
                      <<LogicalRow("03100", "Wall forms", EmptyCell, TRUE),
                        LogicalRow("03120", EmptyCell, "WALLS", TRUE),
                        LogicalRow("03110", "Slab forms", "SLABS", TRUE)>>)}
    \cup {BuildSheet(Layout({3, 4, 5, 6, 7}), <<>>)}

\* Over one costbook a second run of the Extractor rewrites the same file: the
\* pipeline runs the Extractor once, at any moment.
PipelineExtract ==
    /\ extractStatus = "none"
    /\ RunExtractor
    /\ UNCHANGED <<ingestVars, serveVars>>

(***************************************************************************)
(* The Retrieval Service                                                   *)
(***************************************************************************)
\* Requests in one behaviour.
MaxRequests == 2
\* Points of the largest collection the service searches.
MaxStored == 9

NoClient == 0
NoVector == -1
\* A point stored without payload (payload None), and the empty dict {}.
NonePayload == [none |-> TRUE]
EmptyDict == [empty |-> TRUE]

Queries == {"", "concrete formwork", "paint"}
\* str(exc) of the exceptions the external calls raise.
Errors == {"timed out", "503 unavailable"}

NoCall == [query_vector |-> NoVector, query_filter |-> [key |-> "", value |-> ""],
           with_payload |-> FALSE, limit |-> 0]
NoResponse == [outcome |-> "none", status |-> 0, json |-> "", detail |-> "", items |-> <<>>]

NewRequest ==
    [pc |-> "none", via |-> "", query |-> "", client |-> NoClient, built |-> FALSE,
     vector |-> NoVector, embedCalls |-> 0, searchCalls |-> 0, call |-> NoCall,
     results |-> <<>>, failed |-> "none", response |-> NoResponse]

ServeIdle ==
    /\ _qdrant_client = NoClient
    /\ constructed = 0
    /\ requests = [r \in 1..MaxRequests |-> NewRequest]

\* ---- the vector-search service
Abs(x) == IF x < 0 THEN -x ELSE x

\* The similarity of two vectors: the nearer, the higher.
Score(a, b) == VECTOR_SIZE - Abs(a - b)

Matching(coll, flt) ==
    {i \in DOMAIN coll :
        \/ flt.key = ""
        \/ /\ flt.key \in DOMAIN coll[i].payload
           /\ coll[i].payload[flt.key] = flt.value}

RECURSIVE Ranked(_, _, _)
Ranked(coll, qv, ids) ==
    IF ids = {} THEN <<>>
    ELSE LET best == CHOOSE i \in ids :
                        \A j \in ids : \/ Score(qv, coll[i].vector) > Score(qv, coll[j].vector)
                                       \/ /\ Score(qv, coll[i].vector) = Score(qv, coll[j].vector)
                                          /\ i <= j
         IN <<best>> \o Ranked(coll, qv, ids \ {best})

\* qdrant.search: the points that pass the filter, best first, at most limit.
QdrantSearch(coll, call) ==
    LET order == Ranked(coll, call.query_vector, Matching(coll, call.query_filter))
        n == IF Len(order) < call.limit THEN Len(order) ELSE call.limit
    IN [k \in 1..n |->
           [id |-> order[k],
            score |-> Score(call.query_vector, coll[order[k]].vector),
            payload |-> IF call.with_payload THEN coll[order[k]].payload ELSE NonePayload]]

\* ---- retriever.py
\* A slip: no test for None, a client is made and stored at every call.
_get_qdrant_client_always(global, fresh) == [ret |-> fresh, global |-> fresh, built |-> TRUE]

\* A slip: no global statement, the client made is never kept.
_get_qdrant_client_local(global, fresh) == [ret |-> fresh, global |-> global, built |-> TRUE]

\* _get_qdrant_client(): what it returns, what it leaves in the global, and
\* whether it constructed a client (fresh is the instance a construction yields).
_get_qdrant_client(global, fresh) ==
    IF global = NoClient THEN [ret |-> fresh, global |-> fresh, built |-> TRUE]
    ELSE [ret |-> global, global |-> global, built |-> FALSE]

\* _embed_query(query)
_embed_query(query) == Embedding(<<query>>)

\* A slip: the empty query is not tested for.
NotQueryNever(query) == FALSE

\* if not query
NotQuery(query) == query = ""

\* A slip: another limit.
SearchCallLimit10(query_vector) ==
    [query_vector |-> query_vector,
     query_filter |-> [key |-> "source_type", value |-> "bni_csi"],
     with_payload |-> TRUE,
     limit |-> 10]

\* The arguments of qdrant.search.
SearchCall(query_vector) ==
    [query_vector |-> query_vector,
     query_filter |-> [key |-> "source_type", value |-> "bni_csi"],
     with_payload |-> TRUE,
     limit |-> 5]

\* [point.payload or {} for point in results]
Payloads(results) ==
    [k \in DOMAIN results |->
        IF results[k].payload \in {NonePayload, EmptyDict} THEN EmptyDict
        ELSE results[k].payload]

\* ---- main.py
\* Query(..., min_length=1): whether FastAPI lets the query through to the handler.
ValidQuery(query) == query # ""

ValidationError ==
    [outcome |-> "response", status |-> 422, json |-> "error",
     detail |-> "string_too_short", items |-> <<>>]

\* A slip: an exception is answered with an empty result.
RespondHidesErrors(via, raised, detail, items) ==
    IF via = "http"
    THEN [outcome |-> "response", status |-> 200, json |-> "array",
          detail |-> "", items |-> items]
    ELSE IF raised
         THEN [outcome |-> "raise", status |-> 0, json |-> "", detail |-> detail,
               items |-> <<>>]
         ELSE [outcome |-> "return", status |-> 0, json |-> "", detail |-> "",
               items |-> items]

\* search_cost_items: what the caller gets when retrieve_cost_items returns items
\* (raised = FALSE) or raises an exception whose str is detail.
Respond(via, raised, detail, items) ==
    IF via = "http"
    THEN IF raised
         THEN [outcome |-> "response", status |-> 500, json |-> "error",
               detail |-> detail, items |-> <<>>]
         ELSE [outcome |-> "response", status |-> 200, json |-> "array",
               detail |-> "", items |-> items]
    ELSE IF raised
         THEN [outcome |-> "raise", status |-> 0, json |-> "", detail |-> detail,
               items |-> <<>>]
         ELSE [outcome |-> "return", status |-> 0, json |-> "", detail |-> "",
               items |-> items]

\* A request arrives: GET /search?query=q (via "http"), or a direct call of
\* retrieve_cost_items(q) (via "call").  FastAPI validates the query first.
Receive(r) ==
    /\ requests[r].pc = "none"
    /\ \E via \in {"http", "call"}, q \in Queries :
          requests' = [requests EXCEPT ![r] =
              IF via = "http" /\ ~ValidQuery(q)
              THEN [@ EXCEPT !.pc = "done", !.via = via, !.query = q,
                             !.response = ValidationError]
              ELSE [@ EXCEPT !.pc = "handler", !.via = via, !.query = q]]
    /\ UNCHANGED <<_qdrant_client, constructed, collection, serveOthers>>

\* retrieve_cost_items up to the embedding call: the empty query returns [],
\* any other takes the client.
Retrieve(r) ==
    /\ requests[r].pc = "handler"
    /\ IF NotQuery(requests[r].query)
       THEN /\ requests' = [requests EXCEPT ![r] =
                   [@ EXCEPT !.pc = "done",
                             !.response = Respond(requests[r].via, FALSE, "", <<>>)]]
            /\ UNCHANGED <<_qdrant_client, constructed>>
       ELSE LET got == _get_qdrant_client(_qdrant_client, constructed + 1) IN
            /\ requests' = [requests EXCEPT ![r] =
                   [@ EXCEPT !.pc = "embed", !.client = got.ret, !.built = got.built]]
            /\ _qdrant_client' = got.global
            /\ constructed' = IF got.built THEN constructed + 1 ELSE constructed
    /\ UNCHANGED <<collection, serveOthers>>

\* The embedding call returns.
EmbedReturns(r) ==
    /\ requests[r].pc = "embed"
    /\ requests' = [requests EXCEPT ![r] =
           [@ EXCEPT !.pc = "search", !.embedCalls = @ + 1,
                     !.vector = _embed_query(requests[r].query)]]
    /\ UNCHANGED <<_qdrant_client, constructed, collection, serveOthers>>

\* The embedding call raises.
EmbedRaises(r) ==
    /\ requests[r].pc = "embed"
    /\ \E e \in Errors :
          requests' = [requests EXCEPT ![r] =
              [@ EXCEPT !.pc = "done", !.embedCalls = @ + 1, !.failed = "embed",
                        !.response = Respond(requests[r].via, TRUE, e, <<>>)]]
    /\ UNCHANGED <<_qdrant_client, constructed, collection, serveOthers>>

\* The search call returns, and the payloads go back to the caller.
SearchReturns(r) ==
    /\ requests[r].pc = "search"
    /\ LET call == SearchCall(requests[r].vector)
           results == QdrantSearch(collection, call)
       IN requests' = [requests EXCEPT ![r] =
              [@ EXCEPT !.pc = "done", !.searchCalls = @ + 1, !.call = call,
                        !.results = results,
                        !.response = Respond(requests[r].via, FALSE, "", Payloads(results))]]
    /\ UNCHANGED <<_qdrant_client, constructed, collection, serveOthers>>

\* The search call raises.
SearchRaises(r) ==
    /\ requests[r].pc = "search"
    /\ \E e \in Errors :
          requests' = [requests EXCEPT ![r] =
              [@ EXCEPT !.pc = "done", !.searchCalls = @ + 1, !.failed = "search",
                        !.call = SearchCall(requests[r].vector),
                        !.response = Respond(requests[r].via, TRUE, e, <<>>)]]
    /\ UNCHANGED <<_qdrant_client, constructed, collection, serveOthers>>

\* The collections the service is run against: points of this pipeline and of
\* others, nearer to and further from the queries.
StoredPoint(i) ==
    [vector |-> (131 + 29 * i * (IF i % 2 = 0 THEN 1 ELSE -1)) % VECTOR_SIZE,
     payload |-> IF i % 4 = 3 THEN NonePayload
                 ELSE [description |-> IF i % 2 = 0 THEN "Wall forms" ELSE "Paint",
                       unit_cost |-> "4.25",
                       source_type |-> IF i % 5 = 0 THEN "other_src" ELSE "bni_csi"]]

ServeCollections ==
    {[i \in 1..n |-> StoredPoint(i + k)] : n \in {0, 2, MaxStored}, k \in {0, 1}}

(***************************************************************************)
(* Specifications                                                          *)
(***************************************************************************)
ExtractIdle ==
    /\ fileBefore = NoFile
    /\ extractStatus = "none"
    /\ missing = <<>>
    /\ wroteFile = FALSE

IngestIdle ==
    /\ pc = "idle"
    /\ collectionExists = FALSE
    /\ collection = <<>>
    /\ data = <<>>
    /\ idx = 0
    /\ points_batch = <<>>
    /\ uploaded_total = 0
    /\ failure = "none"
    /\ embedCalls = 0
    /\ upsertLog = <<>>
    /\ base = 0
    /\ runs = 0

\* ---- the Extractor alone, over every sheet of ExtractSheets
ExtractorInit ==
    /\ costbookExists \in BOOLEAN
    /\ sheet \in ExtractSheets
    /\ file \in {NoFile, OldFile}
    /\ ExtractIdle
    /\ IngestIdle
    /\ ServeIdle

ExtractorNext == RunExtractor /\ UNCHANGED <<ingestVars, serveVars>>

ExtractorSpec == ExtractorInit /\ [][ExtractorNext]_vars

\* ---- the pipeline: the Extractor, then the Ingestor, over one costbook
Init ==
    /\ costbookExists = TRUE
    /\ sheet \in PipelineSheets
    /\ file = NoFile
    /\ ExtractIdle
    /\ IngestIdle
    /\ ServeIdle

Next ==
    \/ PipelineExtract
    \/ IngestStart
    \/ IngestItem
    \/ IngestItemFails
    \/ Flush
    \/ UpsertFails("flush")
    \/ UpsertFails("loop")
    \/ FinalFlush
    \/ Finish

Spec == Init /\ [][Next]_vars

\* ---- the Retrieval Service, its requests interleaved at the external calls
ServeInit ==
    /\ ServeIdle
    /\ collection \in ServeCollections
    /\ collectionExists = TRUE
    /\ pc = "idle"
    /\ data = <<>>
    /\ idx = 0
    /\ points_batch = <<>>
    /\ uploaded_total = 0
    /\ failure = "none"
    /\ embedCalls = 0
    /\ upsertLog = <<>>
    /\ base = 0
    /\ runs = 0
    /\ costbookExists = TRUE
    /\ sheet = <<>>
    /\ file = NoFile
    /\ ExtractIdle

ServeNext ==
    \/ \E r \in 1..MaxRequests : Receive(r)
    \/ \E r \in 1..MaxRequests : Retrieve(r)
    \/ \E r \in 1..MaxRequests : EmbedReturns(r)
    \/ \E r \in 1..MaxRequests : EmbedRaises(r)
    \/ \E r \in 1..MaxRequests : SearchReturns(r)
    \/ \E r \in 1..MaxRequests : SearchRaises(r)

ServeSpec == ServeInit /\ [][ServeNext]_vars

(***************************************************************************)
(* Properties                                                              *)
(***************************************************************************)
Ceiling(n, b) == (n + b - 1) \div b

\* C1: a successful Ingestor run over n records issues exactly
\* ceiling(n / BATCH_SIZE) upsert calls; every call but the last carries
\* BATCH_SIZE points and the last carries the rest.
C1_UpsertCallsAreCeiling ==
    pc = "done" =>
        /\ Len(upsertLog) = Ceiling(Len(data), BATCH_SIZE)
        /\ \A i \in 1..(Len(upsertLog) - 1) : upsertLog[i] = BATCH_SIZE
        /\ upsertLog # <<>> =>
              upsertLog[Len(upsertLog)] = Len(data) - BATCH_SIZE * (Len(upsertLog) - 1)
        /\ uploaded_total = Len(data)

\* 1200 records went up in calls of 500, 500 and 200.
C1_Witness ==
    pc = "done" /\ Len(data) = 1200 /\ upsertLog = <<500, 500, 200>>

Present(v) == v \notin {NaN, None}

C8_AbortLeavesWholeBatches ==
    (pc = "aborted" /\ failure # "open") =>
        /\ failure \in {"embed", "upsert"}
        /\ ~ENABLED IngestItem
        /\ ~ENABLED IngestItemFails
        /\ ~ENABLED Flush
        /\ ~ENABLED FinalFlush
        /\ ~ENABLED Finish
        /\ ~ENABLED UpsertFails("flush")
        /\ ~ENABLED UpsertFails("loop")
        /\ embedCalls = idx + (IF failure = "embed" THEN 1 ELSE 0)
        /\ uploaded_total + Len(points_batch) = idx
        /\ failure = "embed" =>
              /\ Len(collection) - base = uploaded_total
              /\ uploaded_total = BATCH_SIZE * Len(upsertLog)
              /\ \A j \in DOMAIN points_batch : points_batch[j].id \notin DOMAIN collection
        /\ failure = "upsert" =>
              Len(collection) - base \in {uploaded_total, uploaded_total + Len(points_batch)}
        /\ \A i \in 1..(Len(collection) - base) :
              collection[base + i].payload = Payload(data[i])

\* embed raised after two batches had gone up: they stay, the buffered points
\* are lost.
C8_Witness ==
    /\ pc = "aborted"
    /\ failure = "embed"
    /\ uploaded_total = 2 * BATCH_SIZE
    /\ Len(collection) = 2 * BATCH_SIZE
    /\ Len(points_batch) > 0

\* The required columns the prepared frame of the sheet lacks.
Absent ==
    LET columns == Range(Prepared(sheet).columns)
    IN SelectSeq(required_cols, LAMBDA c : ~(c \in columns))

\* C5: a sheet that lacks a required column after the normalisation and the
\* renames makes the Extractor fail with a missing-columns error, and the output
\* file is not written.
C5_MissingColumnsWriteNothing ==
    (costbookExists /\ extractStatus # "none" /\ Absent # <<>>) =>
        /\ extractStatus = "KeyError"
        /\ missing = Absent
        /\ ~wroteFile
        /\ file = fileBefore

\* A sheet without a cost column was refused, and the file of an earlier run is
\* still there.
C5_Witness ==
    /\ extractStatus = "KeyError"
    /\ missing = <<unit_cost>>
    /\ file = OldFile
    /\ ~wroteFile

\* The rows of a frame with description and unit_cost present, by index.
KeptRows(df) ==
    SelectSeq([i \in DOMAIN df.rows |-> i],
              LAMBDA i : /\ df.rows[i][IndexOf(df.columns, description)] # NaN
                         /\ df.rows[i][IndexOf(df.columns, unit_cost)] # NaN)

\* C6: the output holds exactly the rows whose description and unit_cost are
\* present, in sheet order, cell for cell, but that a null major_classification
\* is written as the empty string.
C6_OutputIsTheCompleteRows ==
    (extractStatus = "ok") =>
        LET df == Prepared(sheet)
            kept == KeptRows(df)
        IN /\ file.exists
           /\ Len(file.records) = Len(kept)
           /\ \A k \in DOMAIN kept :
                 /\ \A j \in DOMAIN df.columns :
                       (df.columns[j] \in Range(required_cols) \cup {code}) =>
                          file.records[k][ColumnKey(df.columns[j])] =
                             IF df.columns[j] = major_classification
                                /\ df.rows[kept[k]][j] = NaN
                             THEN ""
                             ELSE df.rows[kept[k]][j]
                 /\ file.records[k].major_classification # NaN
                 /\ file.records[k].description # NaN
                 /\ file.records[k].unit_cost # NaN

\* Of two rows the first lacked a description and was dropped; the second went
\* out with its empty major_classification written as "".
C6_Witness ==
    /\ extractStatus = "ok"
    /\ Len(sheet) = 4
    /\ sheet[3][IndexOf(Prepared(sheet).columns, description)] = EmptyCell
    /\ Len(file.records) = 1
    /\ file.records[1].major_classification = ""
    /\ file.records[1].description = "Wall forms"

Rs == DOMAIN requests

\* The empty query, as the claim has it: answered with an empty list, with no
\* embedding call and no search call.
C2_EmptyQueryGetsEmptyList ==
    \A r \in Rs :
        (requests[r].pc = "done" /\ requests[r].query = "") =>
            /\ requests[r].response.outcome \in {"return", "response"}
            /\ requests[r].response.outcome = "response" =>
                  requests[r].response.status = 200 /\ requests[r].response.json = "array"
            /\ requests[r].response.items = <<>>
            /\ requests[r].embedCalls = 0
            /\ requests[r].searchCalls = 0

\* C2: for the empty query neither the embedding call nor the search call is
\* made and no client is constructed; retrieve_cost_items returns the empty
\* list, and GET /search refuses the query at validation with status 422.
C2_EmptyQueryCallsNothing ==
    \A r \in Rs :
        (requests[r].pc = "done" /\ requests[r].query = "") =>
            /\ requests[r].embedCalls = 0
            /\ requests[r].searchCalls = 0
            /\ requests[r].client = NoClient
            /\ ~requests[r].built
            /\ requests[r].via = "call" =>
                  /\ requests[r].response.outcome = "return"
                  /\ requests[r].response.items = <<>>
            /\ requests[r].via = "http" =>
                  /\ requests[r].response.status = 422
                  /\ requests[r].response.json = "error"

\* The empty query came once as a call and once over HTTP.
C2_Witness ==
    \E r, q \in Rs :
        /\ requests[r].pc = "done" /\ requests[r].query = "" /\ requests[r].via = "call"
        /\ requests[r].response.outcome = "return"
        /\ requests[q].pc = "done" /\ requests[q].query = "" /\ requests[q].via = "http"
        /\ requests[q].response.status = 422

Succeeded(r) ==
    requests[r].pc = "done" /\ requests[r].query # "" /\ requests[r].failed = "none"

\* C3: a non-empty query whose calls succeed gets at most 5 payloads; the search
\* was restricted to source_type = "bni_csi"; the payloads are those of the
\* points the search returned, one each, in the order it returned them, which
\* is that of descending similarity.
C3_AtMostFiveFilteredInOrder ==
    \A r \in Rs :
        Succeeded(r) =>
            LET items == requests[r].response.items
                results == requests[r].results
                call == requests[r].call
            IN /\ Len(items) <= 5
               /\ call.query_filter = [key |-> "source_type", value |-> "bni_csi"]
               /\ call.query_vector = _embed_query(requests[r].query)
               /\ Len(items) = Len(results)
               /\ \A k \in DOMAIN results :
                     /\ items[k] = results[k].payload
                     /\ results[k].id \in DOMAIN collection
                     /\ results[k].payload = collection[results[k].id].payload
                     /\ items[k].source_type = "bni_csi"
               /\ \A k \in 1..(Len(results) - 1) : results[k].score >= results[k + 1].score
               /\ \A k, l \in DOMAIN results : k # l => results[k].id # results[l].id
               /\ \A i \in Matching(collection, call.query_filter) :
                     \/ \E k \in DOMAIN results : results[k].id = i
                     \/ /\ Len(results) = 5
                        /\ Score(call.query_vector, collection[i].vector) <= results[5].score

\* More than 5 points matched, and the 5 best came back.
C3_Witness ==
    \E r \in Rs :
        /\ Succeeded(r)
        /\ requests[r].via = "http"
        /\ requests[r].response.status = 200
        /\ Len(requests[r].response.items) = 5
        /\ Cardinality(Matching(collection, requests[r].call.query_filter)) > 5
        /\ Cardinality(DOMAIN collection) > Cardinality(Matching(collection, requests[r].call.query_filter))

FailedOverHttp(r) ==
    requests[r].pc = "done" /\ requests[r].via = "http" /\ requests[r].failed # "none"

\* C4: a GET /search whose embedding call or search call fails is answered with
\* status 500, an error message and no items; the answer does not tell which
\* call failed; neither call is made twice, and no search follows a failed
\* embedding.
C4_FailuresBecome500 ==
    /\ \A r \in Rs :
          FailedOverHttp(r) =>
              /\ requests[r].response.outcome = "response"
              /\ requests[r].response.status = 500
              /\ requests[r].response.json = "error"
              /\ requests[r].response.detail \in Errors
              /\ requests[r].response.items = <<>>
              /\ requests[r].embedCalls <= 1
              /\ requests[r].searchCalls <= 1
              /\ requests[r].failed = "embed" => requests[r].searchCalls = 0
    /\ \A r, q \in Rs :
          (FailedOverHttp(r) /\ FailedOverHttp(q)
           /\ requests[r].response.detail = requests[q].response.detail) =>
              requests[r].response = requests[q].response

\* One request failed in the embedding call and one in the search call, and
\* their answers are the same.
C4_Witness ==
    \E r, q \in Rs :
        /\ FailedOverHttp(r) /\ requests[r].failed = "embed"
        /\ FailedOverHttp(q) /\ requests[q].failed = "search"
        /\ requests[r].response = requests[q].response
        /\ requests[r].response.status = 500

\* The positions of a request, in order.
Position(p) ==
    CASE p = "none" -> 0 [] p = "handler" -> 1 [] p = "embed" -> 2
      [] p = "search" -> 3 [] p = "done" -> 4

\* The claim as it stands: handling a request writes no state of the process.
C9_NoSharedStateWritten == [][_qdrant_client' = _qdrant_client]_vars

\* C9: the one state of the process that handling a request writes is the
\* global _qdrant_client, set once, from None, by a request with a non-empty
\* query on its way to the embedding call; the collection is only read, and a
\* request goes client, embed, search, never back.
C9_OnlyTheLazyClientIsWritten ==
    [][/\ (_qdrant_client' # _qdrant_client) =>
             /\ _qdrant_client = NoClient
             /\ \E r \in Rs : /\ requests[r].pc = "handler"
                              /\ requests[r].query # ""
                              /\ requests'[r].pc = "embed"
                              /\ requests'[r].client = _qdrant_client'
       /\ collection' = collection
       /\ \A r \in Rs :
             /\ Position(requests'[r].pc) >= Position(requests[r].pc)
             /\ requests'[r].pc = "search" => requests[r].pc \in {"embed", "search"}
             /\ requests'[r].searchCalls > 0 => requests'[r].embedCalls = 1]_vars

\* Two requests are between their embedding and their search at once, on the
\* client the first of them made.
C9_Witness ==
    \E r, q \in Rs :
        /\ r # q
        /\ requests[r].pc = "search" /\ requests[q].pc = "embed"
        /\ requests[r].built /\ ~requests[q].built
        /\ _qdrant_client # NoClient

\* C10: the vector-search client is constructed at most once, by the first
\* request that gets past the empty-query check; every later request holds that
\* same instance; a request with an empty query constructs none and holds none.
C10_ClientConstructedOnce ==
    /\ constructed <= 1
    /\ Cardinality({r \in Rs : requests[r].built}) = constructed
    /\ \A r \in Rs :
          IF requests[r].query # "" /\ Position(requests[r].pc) >= 2
          THEN /\ constructed = 1
               /\ requests[r].client = _qdrant_client
               /\ requests[r].client # NoClient
          ELSE requests[r].client = NoClient /\ ~requests[r].built
    /\ (constructed = 0) = (_qdrant_client = NoClient)

\* Two requests with non-empty queries are done: one made the client, both
\* used it; had there been an empty query, it made none.
C10_Witness ==
    \E r, q \in Rs :
        /\ r # q
        /\ Succeeded(r) /\ Succeeded(q)
        /\ requests[r].built /\ ~requests[q].built
        /\ requests[r].client = requests[q].client
        /\ constructed = 1

====
